---- MODULE Spec2Model ----
(***************************************************************************)
(* A state-machine model of the lead-capture backend: landing pages with   *)
(* a dynamic form contract, public lead ingestion, role-scoped lead        *)
(* queries and the access-grant bookkeeping between sub-admins and pages.  *)
(*                                                                         *)
(* The stored collections are partial functions keyed by document id       *)
(* (DOMAIN = the documents that exist).  Every route handler is one        *)
(* action; it leaves its HTTP response in `last`.  Text values are         *)
(* sequences of one-character strings, so that trim(), toLowerCase() and   *)
(* the e-mail regular expression are computed and not assumed.             *)
(*                                                                         *)
(* `held` is a history variable: the (sub-admin, landing page) pairs that  *)
(* have had an AdminAccess record at any time.  No handler reads it.       *)
(*                                                                         *)
(* `calls` holds the requests that are being handled one storage operation *)
(* at a time: for each such request the handler's position and the values  *)
(* it has read.  A handler taken as one step leaves it alone.              *)
(***************************************************************************)
EXTENDS Naturals, Sequences, FiniteSets, TLC

VARIABLES users, pages, access, requests, leads, nextId, last, held, calls

vars == <<users, pages, access, requests, leads, nextId, last, held, calls>>

----------------------------------------------------------------------------
(* Bounds of the model: how many documents of each kind are ever created.  *)

MaxUsers == 1

MaxPages == 2

MaxAccess == 2

MaxLeads == 1

MaxRequests == 1

\* Leads in store when the list is paged through
MaxListed == 3

\* Requests handled at the same time, and the records they may store
MaxCalls == 2

MaxRaced == 2

----------------------------------------------------------------------------
(* Text.                                                                   *)

UpperChars == <<"A", "B", "C", "D", "E", "F", "G", "H", "I", "J", "K", "L", "M",
                "N", "O", "P", "Q", "R", "S", "T", "U", "V", "W", "X", "Y", "Z">>

LowerChars == <<"a", "b", "c", "d", "e", "f", "g", "h", "i", "j", "k", "l", "m",
                "n", "o", "p", "q", "r", "s", "t", "u", "v", "w", "x", "y", "z">>

LowerChar(c) ==
    IF \E i \in DOMAIN UpperChars : UpperChars[i] = c
    THEN LowerChars[CHOOSE i \in DOMAIN UpperChars : UpperChars[i] = c]
    ELSE c

\* String.prototype.toLowerCase
ToLowerCase(s) == [i \in DOMAIN s |-> LowerChar(s[i])]

RECURSIVE TrimStart(_)
TrimStart(s) == IF s # <<>> /\ Head(s) = " " THEN TrimStart(Tail(s)) ELSE s

RECURSIVE TrimEnd(_)
TrimEnd(s) ==
    IF s # <<>> /\ s[Len(s)] = " " THEN TrimEnd(SubSeq(s, 1, Len(s) - 1)) ELSE s

\* String.prototype.trim
Trim(s) == TrimEnd(TrimStart(s))

\* /^[^\s@]+@[^\s@]+\.[^\s@]+$/.test(s)
EmailRegexTest(s) ==
    \E i, j \in DOMAIN s :
        /\ 1 < i /\ i + 1 < j /\ j < Len(s)
        /\ s[i] = "@"
        /\ s[j] = "."
        /\ \A k \in DOMAIN s : k # i => s[k] \notin {" ", "@"}

\* s.toLowerCase().includes(t.toLowerCase()): the { $regex: t, $options: 'i' } match
ContainsIgnoreCase(s, t) ==
    \E i \in 0..Len(s) :
        /\ i + Len(t) <= Len(s)
        /\ \A k \in DOMAIN t : LowerChar(s[i + k]) = LowerChar(t[k])

----------------------------------------------------------------------------
(* Objects are partial functions from keys to values; a missing key reads  *)
(* as undefined.                                                           *)

Has(obj, k) == k \in DOMAIN obj

\* JavaScript truthiness of the string obj[k] (undefined and '' are falsy)
Truthy(obj, k) == Has(obj, k) /\ obj[k] # <<>>

\* !value || value.toString().trim() === ''
Blank(obj, k) == ~Truthy(obj, k) \/ Trim(obj[k]) = <<>>

Restrict(f, S) == [k \in DOMAIN f \cap S |-> f[k]]

\* b's entries laid over a's
Merge(a, b) ==
    [k \in DOMAIN a \cup DOMAIN b |-> IF k \in DOMAIN b THEN b[k] ELSE a[k]]

Put(f, k, v) == Merge(f, [x \in {k} |-> v])

Without(f, S) == [k \in DOMAIN f \ S |-> f[k]]

Empty == [k \in {} |-> <<>>]

----------------------------------------------------------------------------
(* Schemas.                                                                *)

SuperAdminId == 0

DefaultFieldNames == {"firstName", "lastName", "email", "phone", "company", "message"}

\* The fixed attributes of the Lead schema
LeadAttrs == {"firstName", "lastName", "email", "phone", "company", "message"}

\* includeDefaultFields of a newly created landing page (the schema defaults)
IncludeDefaults ==
    [k \in DefaultFieldNames |-> k \in {"firstName", "lastName", "email"}]

\* Lead.create runs the schema's validators: firstName, lastName and email
\* are required (a required string must be non-empty), landingPage is set.
LeadSchemaValid(leadData) ==
    \A k \in {"firstName", "lastName", "email"} : Truthy(leadData.fixed, k)

\* leadSchema.virtual('allFormData'): the fixed attributes, then every
\* dynamicFields entry assigned over them.
AllFormData(lead) ==
    Merge([k \in LeadAttrs |-> IF Has(lead.fixed, k) THEN <<lead.fixed[k]>> ELSE <<>>],
          [k \in DOMAIN lead.dynamicFields |-> <<lead.dynamicFields[k]>>])

----------------------------------------------------------------------------
(* Lead ingestion: POST /api/leads.                                        *)

\* landingPage.formFields?.find(field => field.name === fieldName)
ConfiguredFields(lp, fieldName) ==
    {i \in DOMAIN lp.formFields :
        /\ lp.formFields[i].name = fieldName
        /\ \A j \in 1..(i - 1) : lp.formFields[j].name # fieldName}

StandardFields == {"firstName", "lastName", "email", "phone", "landingPageId"}

\* The entries of formData the dynamic-field loop does not skip
DynamicKeys(formData) ==
    {k \in DOMAIN formData : k \notin StandardFields /\ ~Blank(formData, k)}

\* The loop's "configured and required and blank" test, over the entries it visits
RequiredFailures(lp, formData) ==
    {i \in DOMAIN lp.formFields :
        \E k \in DynamicKeys(formData) :
            /\ i \in ConfiguredFields(lp, k)
            /\ lp.formFields[i].required
            /\ Blank(formData, k)}

FirstNameMsg == "First name is required and must be at least 2 characters"

LastNameMsg == "Last name is required and must be at least 2 characters"

EmailMsg == "Valid email is required"

RequiredMsg(label) == <<label, " is required">>

NameInvalid(formData, k) == ~Truthy(formData, k) \/ Len(Trim(formData[k])) < 2

EmailInvalid(formData) == ~Truthy(formData, "email") \/ ~EmailRegexTest(formData["email"])

\* The message of the first validation that fails, <<>> when none does
IngestError(lp, formData) ==
    IF lp.includeDefaultFields["firstName"] /\ NameInvalid(formData, "firstName")
        THEN <<FirstNameMsg>>
    ELSE IF lp.includeDefaultFields["lastName"] /\ NameInvalid(formData, "lastName")
        THEN <<LastNameMsg>>
    ELSE IF lp.includeDefaultFields["email"] /\ EmailInvalid(formData)
        THEN <<EmailMsg>>
    ELSE IF RequiredFailures(lp, formData) # {}
        THEN LET i == CHOOSE i \in RequiredFailures(lp, formData) : TRUE
             IN  RequiredMsg(lp.formFields[i].label)
    ELSE <<>>

\* Which fixed attributes leadData receives
FixedKeys(lp, formData) ==
    {k \in {"firstName", "lastName", "email"} : lp.includeDefaultFields[k]}
    \cup {k \in {"phone"} : Truthy(formData, k)}
    \cup {k \in {"company", "message"} : lp.includeDefaultFields[k] /\ Truthy(formData, k)}

FixedValue(formData, k) ==
    IF k = "email" THEN Trim(ToLowerCase(formData[k])) ELSE Trim(formData[k])

\* leadData with the dynamic values stored as submitted, untrimmed: the
\* storage property C5 must fail against it
LeadDataUntrimmed(pid, lp, formData) ==
    [landingPage |-> pid,
     fixed |-> [k \in FixedKeys(lp, formData) |-> FixedValue(formData, k)],
     dynamicFields |-> [k \in DynamicKeys(formData) |-> formData[k]],
     status |-> "new"]

\* leadData as assembled by the handler once every check has passed
LeadData(pid, lp, formData) ==
    [landingPage |-> pid,
     fixed |-> [k \in FixedKeys(lp, formData) |-> FixedValue(formData, k)],
     dynamicFields |-> [k \in DynamicKeys(formData) |-> Trim(formData[k])],
     status |-> "new"]

----------------------------------------------------------------------------
(* Responses.  `last` holds the request handled last and the response it   *)
(* got: the status code and the JSON body (a partial function: only the    *)
(* keys the handler wrote).  Messages are sequences of text pieces.        *)

Response(op, req, code, json) == [op |-> op, req |-> req, code |-> code, json |-> json]

Fail(code, message) == [code |-> code, json |-> [success |-> FALSE, message |-> message]]

\* app.use((err, req, res, next) => ...): what a handler that throws answers
ErrorHandler ==
    [code |-> 500, json |-> [message |-> <<"Something went wrong!">>, error |-> TRUE]]

\* A landing-page test that only asks for the page to exist: the ingestion
\* property C4 must fail against it
MissingLandingPage(pid) == pid \notin DOMAIN pages

\* !landingPage || landingPage.status !== 'active'
InvalidLandingPage(pid) == pid \notin DOMAIN pages \/ pages[pid].status # "active"

\* The lead-ingestion handler up to Lead.create: its response, and the
\* document it stores (none when created is FALSE)
Ingest(pid, formData) ==
    IF InvalidLandingPage(pid)
        THEN [created |-> FALSE, res |-> Fail(400, <<"Invalid landing page">>)]
    ELSE IF IngestError(pages[pid], formData) # <<>>
        THEN [created |-> FALSE, res |-> Fail(400, IngestError(pages[pid], formData))]
    ELSE IF ~LeadSchemaValid(LeadData(pid, pages[pid], formData))
        THEN [created |-> FALSE, res |-> ErrorHandler]
    ELSE [created |-> TRUE,
          lead |-> LeadData(pid, pages[pid], formData),
          res |-> [code |-> 201,
                   json |-> [success |-> TRUE,
                             message |-> <<"Lead created successfully">>,
                             data |-> nextId.lead]]]

\* router.post('/') of the leads router
CreateLead(pid, formData) ==
    LET r == Ingest(pid, formData) IN
    /\ r.created => nextId.lead <= MaxLeads
    /\ leads' = IF r.created THEN Put(leads, nextId.lead, r.lead) ELSE leads
    /\ nextId' = IF r.created THEN [nextId EXCEPT !.lead = @ + 1] ELSE nextId
    /\ last' = Response("createLead", [landingPageId |-> pid, formData |-> formData],
                        r.res.code, r.res.json)
    /\ UNCHANGED <<users, pages, access, requests, held, calls>>

----------------------------------------------------------------------------
(* Landing pages.                                                          *)

\* router.post('/') of the landing-page router, router.post('/landing-pages')
CreateLandingPage(name, url) ==
    /\ nextId.page <= MaxPages
    /\ IF \E p \in DOMAIN pages : pages[p].name = name \/ pages[p].url = url
       THEN /\ last' = Response("createLandingPage", [name |-> name, url |-> url], 400,
                    [success |-> FALSE,
                     message |-> <<"Landing page with this name or URL already exists">>])
            /\ UNCHANGED <<pages, nextId>>
       ELSE /\ pages' = Put(pages, nextId.page,
                    [name |-> name, url |-> url, status |-> "active",
                     formFields |-> <<>>, includeDefaultFields |-> IncludeDefaults])
            /\ nextId' = [nextId EXCEPT !.page = @ + 1]
            /\ last' = Response("createLandingPage", [name |-> name, url |-> url], 201,
                    [success |-> TRUE,
                     message |-> <<"Landing page created successfully">>,
                     data |-> nextId.page])
    /\ UNCHANGED <<users, access, requests, leads, held, calls>>

\* The duplicate found by LandingPage.findOne(duplicateQuery): another page
\* that matches every one of the supplied name and url
Duplicates(pid, body) ==
    {p \in DOMAIN pages \ {pid} :
        /\ Has(body, "name") => pages[p].name = body["name"]
        /\ Has(body, "url") => pages[p].url = body["url"]}

\* name: { unique: true }, url: { unique: true } of the landing-page schema:
\* findByIdAndUpdate throws when another page has the name or the url written
KeyTaken(pid, body) ==
    \E p \in DOMAIN pages \ {pid} :
        \/ Has(body, "name") /\ pages[p].name = body["name"]
        \/ Has(body, "url") /\ pages[p].url = body["url"]

\* router.put('/:id') of the landing-page router, router.put('/landing-pages/:id')
UpdateLandingPage(pid, body) ==
    /\ IF pid \notin DOMAIN pages
       THEN /\ last' = Response("updateLandingPage", [id |-> pid, body |-> body], 404,
                    [success |-> FALSE, message |-> <<"Landing page not found">>])
            /\ UNCHANGED pages
       ELSE IF (Has(body, "name") \/ Has(body, "url")) /\ Duplicates(pid, body) # {}
       THEN /\ last' = Response("updateLandingPage", [id |-> pid, body |-> body], 400,
                    [success |-> FALSE,
                     message |-> <<"Landing page with this name or URL already exists">>])
            /\ UNCHANGED pages
       ELSE IF KeyTaken(pid, body)
       THEN /\ last' = Response("updateLandingPage", [id |-> pid, body |-> body],
                                ErrorHandler.code, ErrorHandler.json)
            /\ UNCHANGED pages
       ELSE /\ pages' = [pages EXCEPT ![pid] =
                    Merge(@, Restrict(body, {"name", "url", "status"}))]
            /\ last' = Response("updateLandingPage", [id |-> pid, body |-> body], 200,
                    [success |-> TRUE,
                     message |-> <<"Landing page updated successfully">>,
                     data |-> pid])
    /\ UNCHANGED <<users, access, requests, leads, nextId, held, calls>>

NoLeadsOf(pid) == {}

\* Lead.countDocuments({ landingPage: req.params.id }): the leads counted
LeadsOf(pid) == {l \in DOMAIN leads : leads[l].landingPage = pid}

\* router.delete('/:id') of the landing-page router, router.delete('/landing-pages/:id')
DeleteLandingPage(pid) ==
    LET leadCount == Cardinality(LeadsOf(pid)) IN
    /\ IF pid \notin DOMAIN pages
       THEN /\ last' = Response("deleteLandingPage", [id |-> pid], 404,
                    [success |-> FALSE, message |-> <<"Landing page not found">>])
            /\ UNCHANGED pages
       ELSE IF leadCount > 0
       THEN /\ last' = Response("deleteLandingPage", [id |-> pid], 400,
                    [success |-> FALSE,
                     message |-> <<"Cannot delete landing page. There are leads associated with it.">>,
                     leadCount |-> leadCount])
            /\ UNCHANGED pages
       ELSE /\ pages' = Without(pages, {pid})
            /\ last' = Response("deleteLandingPage", [id |-> pid], 200,
                    [success |-> TRUE, message |-> <<"Landing page deleted successfully">>])
    /\ UNCHANGED <<users, access, requests, leads, nextId, held, calls>>

\* The first index whose entry lacks name, label or type; 0 when none does
BadFieldIndex(formFields) ==
    LET bad == {i \in DOMAIN formFields :
                    \/ formFields[i].name = ""
                    \/ formFields[i].label = ""
                    \/ formFields[i].type = ""}
    IN  IF bad = {} THEN 0 ELSE CHOOSE i \in bad : \A j \in bad : i <= j

\* router.put('/:id/form-fields')
UpdateFormFields(pid, formFields, includeDefaultFields) ==
    LET req == [id |-> pid, formFields |-> formFields,
                includeDefaultFields |-> includeDefaultFields] IN
    /\ IF pid \notin DOMAIN pages
       THEN /\ last' = Response("updateFormFields", req, 404,
                    [success |-> FALSE, message |-> <<"Landing page not found">>])
            /\ UNCHANGED pages
       ELSE IF BadFieldIndex(formFields) # 0
       THEN /\ last' = Response("updateFormFields", req, 400,
                    [success |-> FALSE,
                     message |-> <<"Form field is missing required properties (name, label, type)">>,
                     index |-> BadFieldIndex(formFields) - 1])
            /\ UNCHANGED pages
       ELSE IF \E k \in DOMAIN includeDefaultFields : k \notin DefaultFieldNames
       THEN /\ last' = Response("updateFormFields", req, 400,
                    [success |-> FALSE,
                     message |-> <<"Invalid default field: ",
                                   CHOOSE k \in DOMAIN includeDefaultFields :
                                       k \notin DefaultFieldNames>>])
            /\ UNCHANGED pages
       ELSE /\ pages' = [pages EXCEPT ![pid] =
                    [@ EXCEPT !.formFields =
                                  [i \in DOMAIN formFields |->
                                      IF Has(formFields[i], "order") THEN formFields[i]
                                      ELSE Put(formFields[i], "order", i - 1)],
                              !.includeDefaultFields =
                                  [k \in DefaultFieldNames |->
                                      Has(includeDefaultFields, k) /\ includeDefaultFields[k]]]]
            /\ last' = Response("updateFormFields", req, 200,
                    [success |-> TRUE,
                     message |-> <<"Landing page form fields updated successfully">>,
                     data |-> pid])
    /\ UNCHANGED <<users, access, requests, leads, nextId, held, calls>>

\* The test-form loop over landingPage.formFields: one error per required
\* field whose value is missing or blank, in the fields' order
RECURSIVE RequiredErrors(_, _)
RequiredErrors(formFields, formData) ==
    IF formFields = <<>> THEN <<>>
    ELSE (IF Head(formFields).required /\ Blank(formData, Head(formFields).name)
            THEN <<RequiredMsg(Head(formFields).label)>> ELSE <<>>)
         \o RequiredErrors(Tail(formFields), formData)

\* The validation errors the test-form handler collects, in order
TestFormErrors(lp, formData) ==
    (IF lp.includeDefaultFields["firstName"] /\ NameInvalid(formData, "firstName")
        THEN <<<<FirstNameMsg>>>> ELSE <<>>)
    \o (IF lp.includeDefaultFields["lastName"] /\ NameInvalid(formData, "lastName")
        THEN <<<<LastNameMsg>>>> ELSE <<>>)
    \o (IF lp.includeDefaultFields["email"] /\ EmailInvalid(formData)
        THEN <<<<EmailMsg>>>> ELSE <<>>)
    \o RequiredErrors(lp.formFields, formData)

\* router.post('/:id/test-form')
TestForm(pid, formData) ==
    LET req == [id |-> pid, formData |-> formData] IN
    /\ IF pid \notin DOMAIN pages
       THEN last' = Response("testForm", req, 404,
                    [success |-> FALSE, message |-> <<"Landing page not found">>])
       ELSE IF TestFormErrors(pages[pid], formData) # <<>>
       THEN last' = Response("testForm", req, 400,
                    [success |-> FALSE,
                     message |-> <<"Form validation failed">>,
                     errors |-> TestFormErrors(pages[pid], formData)])
       ELSE last' = Response("testForm", req, 200,
                    [success |-> TRUE,
                     message |-> <<"Form validation passed">>,
                     data |-> [formData |-> formData,
                               formConfig |->
                                   [formFields |-> pages[pid].formFields,
                                    includeDefaultFields |->
                                        pages[pid].includeDefaultFields]]])
    /\ UNCHANGED <<users, pages, access, requests, leads, nextId, held, calls>>

----------------------------------------------------------------------------
(* Users and access grants: the /api/admin router (super admin only).      *)

\* router.post('/create-sub-admin')
CreateSubAdmin(email, password) ==
    /\ nextId.user <= MaxUsers
    /\ IF \E u \in DOMAIN users : users[u].email = email
       THEN /\ last' = Response("createSubAdmin", [email |-> email], 400,
                    [success |-> FALSE, message |-> <<"User already exists with this email">>])
            /\ UNCHANGED <<users, nextId>>
       ELSE /\ users' = Put(users, nextId.user,
                    [email |-> email, password |-> password, role |-> "sub_admin",
                     status |-> "approved"])
            /\ nextId' = [nextId EXCEPT !.user = @ + 1]
            /\ last' = Response("createSubAdmin", [email |-> email], 201,
                    [success |-> TRUE, message |-> <<"Sub admin created successfully">>,
                     data |-> nextId.user])
    /\ UNCHANGED <<pages, access, requests, leads, held, calls>>

\* router.post('/register') of the auth router: the user starts as a pending
\* sub-admin and the response carries a token for it
Register(email, password) ==
    LET req == [email |-> email, password |-> password] IN
    /\ IF \E u \in DOMAIN users : users[u].email = email
       THEN /\ last' = Response("register", req, 400,
                    [success |-> FALSE, message |-> <<"User already exists with this email">>])
            /\ UNCHANGED <<users, nextId>>
       ELSE /\ nextId.user <= MaxUsers
            /\ users' = Put(users, nextId.user,
                    [email |-> email, password |-> password, role |-> "sub_admin",
                     status |-> "pending"])
            /\ nextId' = [nextId EXCEPT !.user = @ + 1]
            /\ last' = Response("register", req, 201,
                    [success |-> TRUE,
                     message |-> <<"Registration successful. Waiting for super admin approval.">>,
                     token |-> nextId.user])
    /\ UNCHANGED <<pages, access, requests, leads, held, calls>>

\* user.matchPassword(password): the entered password is the user's password
MatchPassword(user, password) == user.password = password

NeverAwaiting(user) == FALSE

\* user.role === 'sub_admin' && user.status !== 'approved'
AwaitingApproval(user) == user.role = "sub_admin" /\ user.status # "approved"

\* router.post('/login') of the auth router; the token names the user
Login(email, password) ==
    LET req == [email |-> email, password |-> password]
        found == {u \in DOMAIN users : users[u].email = email}
        user == CHOOSE u \in found : TRUE
    IN
    /\ IF found = {}
       THEN last' = Response("login", req, 401,
                    [success |-> FALSE, message |-> <<"Invalid credentials">>])
       ELSE IF ~MatchPassword(users[user], password)
       THEN last' = Response("login", req, 401,
                    [success |-> FALSE, message |-> <<"Invalid credentials">>])
       ELSE IF AwaitingApproval(users[user])
       THEN last' = Response("login", req, 403,
                    [success |-> FALSE,
                     message |-> <<"Your account is pending approval or has been rejected">>])
       ELSE last' = Response("login", req, 200,
                    [success |-> TRUE, message |-> <<"Login successful">>,
                     token |-> user])
    /\ UNCHANGED <<users, pages, access, requests, leads, nextId, held, calls>>

\* The body shared by the approve-user and reject-user handlers
DecideUser(op, uid, decision, onlyMsg, alreadyMsg, doneMsg) ==
    /\ IF uid \notin DOMAIN users
       THEN /\ last' = Response(op, [id |-> uid], 404,
                    [success |-> FALSE, message |-> <<"User not found">>])
            /\ UNCHANGED users
       ELSE IF users[uid].role # "sub_admin"
       THEN /\ last' = Response(op, [id |-> uid], 400,
                    [success |-> FALSE, message |-> <<onlyMsg>>])
            /\ UNCHANGED users
       ELSE IF users[uid].status = decision
       THEN /\ last' = Response(op, [id |-> uid], 400,
                    [success |-> FALSE, message |-> <<alreadyMsg>>])
            /\ UNCHANGED users
       ELSE /\ users' = [users EXCEPT ![uid].status = decision]
            /\ last' = Response(op, [id |-> uid], 200,
                    [success |-> TRUE, message |-> <<doneMsg>>, data |-> uid])
    /\ UNCHANGED <<pages, access, requests, leads, nextId, held, calls>>

\* router.put('/approve-user/:id')
ApproveUser(uid) ==
    DecideUser("approveUser", uid, "approved", "Can only approve sub admin users",
               "User is already approved", "User approved successfully")

\* router.put('/reject-user/:id')
RejectUser(uid) ==
    DecideUser("rejectUser", uid, "rejected", "Can only reject sub admin users",
               "User is already rejected", "User rejected successfully")

\* The (sub-admin, landing page) pairs of a collection of AdminAccess records
PairsOf(records) ==
    {<<records[a].subAdmin, records[a].landingPage>> : a \in DOMAIN records}

\* AdminAccess.findOne({ subAdmin, landingPage }): the records of the pair
AccessOf(sub, pid) ==
    {a \in DOMAIN access : access[a].subAdmin = sub /\ access[a].landingPage = pid}

\* A reactivation that keeps the revocation marks: the grant property C10
\* must fail against it
ReactivatedKeepingMarks(record) == [record EXCEPT !.status = "active"]

\* existingAccess.status = 'active'; revokedAt and revokedBy are unset
Reactivated(record) == [record EXCEPT !.status = "active", !.revoked = FALSE]

\* router.post('/grant-access')
GrantAccess(sub, pid) ==
    LET req == [subAdminId |-> sub, landingPageId |-> pid] IN
    /\ IF sub \notin DOMAIN users \/ users[sub].role # "sub_admin"
            \/ users[sub].status # "approved"
       THEN /\ last' = Response("grantAccess", req, 400,
                    [success |-> FALSE, message |-> <<"Invalid sub admin or not approved">>])
            /\ UNCHANGED <<access, nextId>>
       ELSE IF pid \notin DOMAIN pages
       THEN /\ last' = Response("grantAccess", req, 400,
                    [success |-> FALSE, message |-> <<"Landing page not found">>])
            /\ UNCHANGED <<access, nextId>>
       ELSE IF AccessOf(sub, pid) # {}
       THEN LET a == CHOOSE a \in AccessOf(sub, pid) : TRUE IN
            IF access[a].status = "active"
            THEN /\ last' = Response("grantAccess", req, 400,
                        [success |-> FALSE, message |-> <<"Access already granted">>])
                 /\ UNCHANGED <<access, nextId>>
            ELSE /\ access' = [access EXCEPT ![a] = Reactivated(@)]
                 /\ last' = Response("grantAccess", req, 200,
                        [success |-> TRUE, message |-> <<"Access reactivated successfully">>,
                         data |-> a])
                 /\ UNCHANGED nextId
       ELSE /\ nextId.access <= MaxAccess
            /\ access' = Put(access, nextId.access,
                    [subAdmin |-> sub, landingPage |-> pid, status |-> "active",
                     revoked |-> FALSE])
            /\ nextId' = [nextId EXCEPT !.access = @ + 1]
            /\ last' = Response("grantAccess", req, 201,
                    [success |-> TRUE, message |-> <<"Access granted successfully">>,
                     data |-> nextId.access])
    /\ UNCHANGED <<users, pages, requests, leads>>
    /\ held' = held \cup PairsOf(access')
    /\ UNCHANGED calls

\* router.put('/revoke-access/:id')
RevokedKeepingStatus(record) == [record EXCEPT !.revoked = TRUE]

\* adminAccess.status = 'revoked'; revokedAt = Date.now(); revokedBy = req.user.id
Revoked(record) == [record EXCEPT !.status = "revoked", !.revoked = TRUE]

RevokeAccess(aid) ==
    /\ IF aid \notin DOMAIN access
       THEN /\ last' = Response("revokeAccess", [id |-> aid], 404,
                    [success |-> FALSE, message |-> <<"Access record not found">>])
            /\ UNCHANGED access
       ELSE IF access[aid].status = "revoked"
       THEN /\ last' = Response("revokeAccess", [id |-> aid], 400,
                    [success |-> FALSE, message |-> <<"Access is already revoked">>])
            /\ UNCHANGED access
       ELSE /\ access' = [access EXCEPT ![aid] = Revoked(access[aid])]
            /\ last' = Response("revokeAccess", [id |-> aid], 200,
                    [success |-> TRUE, message |-> <<"Access revoked successfully">>,
                     data |-> aid])
    /\ UNCHANGED <<users, pages, requests, leads, nextId>>
    /\ held' = held \cup PairsOf(access')
    /\ UNCHANGED calls

----------------------------------------------------------------------------
(* Access requests, and the sub-admin management of the /api/super-admin   *)
(* router.                                                                 *)

\* No unique index on (subAdmin, landingPage): AdminAccess.create always
\* succeeds.  The uniqueness property C11 must fail against it
NoDuplicateKey(records, sub, pid) == FALSE

\* adminAccessSchema.index({ subAdmin: 1, landingPage: 1 }, { unique: true }):
\* AdminAccess.create throws when the collection already has a record of the pair
DuplicateKey(records, sub, pid) ==
    \E a \in DOMAIN records : records[a].subAdmin = sub /\ records[a].landingPage = pid

\* The document AdminAccess.create stores
NewAccess(sub, pid) ==
    [subAdmin |-> sub, landingPage |-> pid, status |-> "active", revoked |-> FALSE]

\* protect and authorize(role): the caller is a stored user of that role
Permitted(actor, role) == actor \in DOMAIN users /\ users[actor].role = role

Denied(actor) ==
    IF actor \notin DOMAIN users
    THEN Fail(401, <<"Not authorized to access this route">>)
    ELSE Fail(403, <<"User role is not authorized to access this route">>)

\* AccessRequest.findOne({ subAdmin, landingPage, status: { $in: ['pending', 'approved'] } })
OpenRequests(sub, pid) ==
    {r \in DOMAIN requests :
        /\ requests[r].subAdmin = sub
        /\ requests[r].landingPage = pid
        /\ requests[r].status \in {"pending", "approved"}}

\* router.post('/') of the access-request router
CreateAccessRequest(actor, pid) ==
    LET req == [user |-> actor, landingPageId |-> pid] IN
    /\ IF ~Permitted(actor, "sub_admin")
       THEN /\ last' = Response("createAccessRequest", req, Denied(actor).code,
                                Denied(actor).json)
            /\ UNCHANGED <<requests, nextId>>
       ELSE IF InvalidLandingPage(pid)
       THEN /\ last' = Response("createAccessRequest", req, 400,
                    [success |-> FALSE, message |-> <<"Invalid landing page">>])
            /\ UNCHANGED <<requests, nextId>>
       ELSE IF OpenRequests(actor, pid) # {}
       THEN LET r == CHOOSE r \in OpenRequests(actor, pid) : TRUE IN
            /\ last' = Response("createAccessRequest", req, 400,
                    [success |-> FALSE,
                     message |-> IF requests[r].status = "approved"
                                 THEN <<"You already have access to this landing page">>
                                 ELSE <<"You already have a pending request for this landing page">>])
            /\ UNCHANGED <<requests, nextId>>
       ELSE /\ nextId.request <= MaxRequests
            /\ requests' = Put(requests, nextId.request,
                    [subAdmin |-> actor, landingPage |-> pid, status |-> "pending"])
            /\ nextId' = [nextId EXCEPT !.request = @ + 1]
            /\ last' = Response("createAccessRequest", req, 201,
                    [success |-> TRUE, message |-> <<"Access request created successfully">>,
                     data |-> nextId.request])
    /\ UNCHANGED <<users, pages, access, leads, held, calls>>

\* router.put('/:id/approve') of the access-request router
ApproveRequest(rid, pid) ==
    LET req == [id |-> rid, landingPageId |-> pid] IN
    /\ IF rid \notin DOMAIN requests
       THEN /\ last' = Response("approveRequest", req, 404,
                    [success |-> FALSE, message |-> <<"Access request not found">>])
            /\ UNCHANGED <<requests, access, nextId>>
       ELSE IF requests[rid].status # "pending"
       THEN /\ last' = Response("approveRequest", req, 400,
                    [success |-> FALSE, message |-> <<"Access request is not pending">>])
            /\ UNCHANGED <<requests, access, nextId>>
       ELSE IF pid \notin DOMAIN pages
       THEN /\ last' = Response("approveRequest", req, 400,
                    [success |-> FALSE, message |-> <<"Landing page not found">>])
            /\ UNCHANGED <<requests, access, nextId>>
       ELSE /\ requests' = [requests EXCEPT ![rid].status = "approved"]
            /\ IF DuplicateKey(access, requests[rid].subAdmin, pid)
               THEN /\ last' = Response("approveRequest", req, ErrorHandler.code,
                                        ErrorHandler.json)
                    /\ UNCHANGED <<access, nextId>>
               ELSE /\ nextId.access <= MaxAccess
                    /\ access' = Put(access, nextId.access,
                                     NewAccess(requests[rid].subAdmin, pid))
                    /\ nextId' = [nextId EXCEPT !.access = @ + 1]
                    /\ last' = Response("approveRequest", req, 200,
                            [success |-> TRUE,
                             message |-> <<"Access request approved successfully">>,
                             data |-> rid])
    /\ UNCHANGED <<users, pages, leads>>
    /\ held' = held \cup PairsOf(access')
    /\ UNCHANGED calls

\* router.put('/:id/reject') of the access-request router (the reason is valid)
RejectRequest(rid) ==
    /\ IF rid \notin DOMAIN requests
       THEN /\ last' = Response("rejectRequest", [id |-> rid], 404,
                    [success |-> FALSE, message |-> <<"Access request not found">>])
            /\ UNCHANGED requests
       ELSE IF requests[rid].status # "pending"
       THEN /\ last' = Response("rejectRequest", [id |-> rid], 400,
                    [success |-> FALSE, message |-> <<"Access request is not pending">>])
            /\ UNCHANGED requests
       ELSE /\ requests' = [requests EXCEPT ![rid].status = "rejected"]
            /\ last' = Response("rejectRequest", [id |-> rid], 200,
                    [success |-> TRUE,
                     message |-> <<"Access request rejected successfully">>,
                     data |-> rid])
    /\ UNCHANGED <<users, pages, access, leads, nextId, held, calls>>

\* router.post('/') of the access-request router, one storage operation at a
\* time.  The call starts with protect, authorize and LandingPage.findById
CreateAccessRequestStart(c, actor, pid) ==
    LET req == [user |-> actor, landingPageId |-> pid] IN
    /\ c \notin DOMAIN calls
    /\ IF ~Permitted(actor, "sub_admin")
       THEN /\ last' = Response("createAccessRequest", req, Denied(actor).code,
                                Denied(actor).json)
            /\ UNCHANGED calls
       ELSE IF InvalidLandingPage(pid)
       THEN /\ last' = Response("createAccessRequest", req, 400,
                    [success |-> FALSE, message |-> <<"Invalid landing page">>])
            /\ UNCHANGED calls
       ELSE /\ calls' = Put(calls, c, [op |-> "createAccessRequest", at |-> "findOne",
                                       req |-> req])
            /\ UNCHANGED last
    /\ UNCHANGED <<users, pages, access, requests, leads, nextId, held>>

\* ... and goes on with AccessRequest.findOne and then AccessRequest.create
CreateAccessRequestStep(c) ==
    /\ c \in DOMAIN calls
    /\ calls[c].op = "createAccessRequest"
    /\ LET req == calls[c].req
           open == OpenRequests(req.user, req.landingPageId)
       IN
       IF calls[c].at = "findOne"
       THEN IF open # {}
            THEN LET r == CHOOSE r \in open : TRUE IN
                 /\ last' = Response("createAccessRequest", req, 400,
                        [success |-> FALSE,
                         message |-> IF requests[r].status = "approved"
                                     THEN <<"You already have access to this landing page">>
                                     ELSE <<"You already have a pending request for this landing page">>])
                 /\ calls' = Without(calls, {c})
                 /\ UNCHANGED <<requests, nextId>>
            ELSE /\ calls' = [calls EXCEPT ![c].at = "create"]
                 /\ UNCHANGED <<requests, nextId, last>>
       ELSE /\ nextId.request <= MaxRaced
            /\ requests' = Put(requests, nextId.request,
                    [subAdmin |-> req.user, landingPage |-> req.landingPageId,
                     status |-> "pending"])
            /\ nextId' = [nextId EXCEPT !.request = @ + 1]
            /\ last' = Response("createAccessRequest", req, 201,
                    [success |-> TRUE, message |-> <<"Access request created successfully">>,
                     data |-> nextId.request])
            /\ calls' = Without(calls, {c})
    /\ UNCHANGED <<users, pages, access, leads, held>>

\* router.post('/') of the leads router, one storage operation at a time:
\* the call awaits LandingPage.findById, validates the form data against
\* the page it read ...
CreateLeadStart(c, pid, formData) ==
    LET req == [landingPageId |-> pid, formData |-> formData] IN
    /\ c \notin DOMAIN calls
    /\ IF InvalidLandingPage(pid) \/ IngestError(pages[pid], formData) # <<>>
       THEN /\ last' = Response("createLead", req, Ingest(pid, formData).res.code,
                                Ingest(pid, formData).res.json)
            /\ UNCHANGED calls
       ELSE /\ calls' = Put(calls, c, [op |-> "createLead", at |-> "create",
                                       req |-> Merge(req, [landingPage |-> pages[pid]])])
            /\ UNCHANGED last
    /\ UNCHANGED <<users, pages, access, requests, leads, nextId, held>>

\* ... and goes on with Lead.create of the lead data built from that page
CreateLeadStep(c) ==
    /\ c \in DOMAIN calls
    /\ calls[c].op = "createLead"
    /\ LET req == Restrict(calls[c].req, {"landingPageId", "formData"})
           leadData == LeadData(req.landingPageId, calls[c].req.landingPage, req.formData)
       IN
       IF ~LeadSchemaValid(leadData)
       THEN /\ last' = Response("createLead", req, ErrorHandler.code, ErrorHandler.json)
            /\ UNCHANGED <<leads, nextId>>
       ELSE /\ nextId.lead <= MaxLeads
            /\ leads' = Put(leads, nextId.lead, leadData)
            /\ nextId' = [nextId EXCEPT !.lead = @ + 1]
            /\ last' = Response("createLead", req, 201,
                    [success |-> TRUE, message |-> <<"Lead created successfully">>,
                     data |-> nextId.lead])
    /\ calls' = Without(calls, {c})
    /\ UNCHANGED <<users, pages, access, requests, held>>

\* router.delete('/:id') of the landing-page router, one storage operation
\* at a time: the call awaits LandingPage.findById ...
DeleteLandingPageStart(c, pid) ==
    /\ c \notin DOMAIN calls
    /\ IF pid \notin DOMAIN pages
       THEN /\ last' = Response("deleteLandingPage", [id |-> pid], 404,
                    [success |-> FALSE, message |-> <<"Landing page not found">>])
            /\ UNCHANGED calls
       ELSE /\ calls' = Put(calls, c, [op |-> "deleteLandingPage", at |-> "countDocuments",
                                       req |-> [id |-> pid]])
            /\ UNCHANGED last
    /\ UNCHANGED <<users, pages, access, requests, leads, nextId, held>>

\* ... and goes on with Lead.countDocuments and then
\* LandingPage.findByIdAndDelete
DeleteLandingPageStep(c) ==
    /\ c \in DOMAIN calls
    /\ calls[c].op = "deleteLandingPage"
    /\ LET req == calls[c].req
           leadCount == Cardinality(LeadsOf(req.id))
       IN
       IF calls[c].at = "countDocuments"
       THEN IF leadCount > 0
            THEN /\ last' = Response("deleteLandingPage", req, 400,
                        [success |-> FALSE,
                         message |-> <<"Cannot delete landing page. There are leads associated with it.">>,
                         leadCount |-> leadCount])
                 /\ calls' = Without(calls, {c})
                 /\ UNCHANGED pages
            ELSE /\ calls' = [calls EXCEPT ![c].at = "findByIdAndDelete"]
                 /\ UNCHANGED <<pages, last>>
       ELSE /\ pages' = Without(pages, {req.id})
            /\ last' = Response("deleteLandingPage", req, 200,
                    [success |-> TRUE, message |-> <<"Landing page deleted successfully">>])
            /\ calls' = Without(calls, {c})
    /\ UNCHANGED <<users, access, requests, leads, nextId, held>>

\* router.post('/sub-admins') of the super-admin router; body may carry
\* landingPageId and status
CreateSubAdminWithPage(email, password, body) ==
    LET req == [email |-> email, body |-> body]
        assign == Has(body, "landingPageId")
    IN
    /\ nextId.user <= MaxUsers
    /\ IF \E u \in DOMAIN users : users[u].email = email
       THEN /\ last' = Response("createSubAdminWithPage", req, 400,
                    [success |-> FALSE, message |-> <<"User already exists with this email">>])
            /\ UNCHANGED <<users, access, nextId>>
       ELSE IF assign /\ InvalidLandingPage(body["landingPageId"])
       THEN /\ last' = Response("createSubAdminWithPage", req, 400,
                    [success |-> FALSE, message |-> <<"Invalid landing page">>])
            /\ UNCHANGED <<users, access, nextId>>
       ELSE /\ assign => nextId.access <= MaxAccess
            /\ users' = Put(users, nextId.user,
                    [email |-> email, password |-> password, role |-> "sub_admin",
                     status |-> IF Has(body, "status") THEN body["status"] ELSE "approved"])
            /\ access' = IF assign
                         THEN Put(access, nextId.access,
                                  NewAccess(nextId.user, body["landingPageId"]))
                         ELSE access
            /\ nextId' = [nextId EXCEPT !.user = @ + 1,
                                        !.access = IF assign THEN @ + 1 ELSE @]
            /\ last' = Response("createSubAdminWithPage", req, 201,
                    [success |-> TRUE, message |-> <<"Sub admin created successfully">>,
                     data |-> nextId.user])
    /\ UNCHANGED <<pages, requests, leads>>
    /\ held' = held \cup PairsOf(access')
    /\ UNCHANGED calls

\* AdminAccess.deleteMany({ subAdmin, status: 'active' }): what is left
WithoutActive(sub) ==
    Without(access, {a \in DOMAIN access :
                        access[a].subAdmin = sub /\ access[a].status = "active"})

\* router.put('/sub-admins/:id') of the super-admin router; body may carry
\* status and landingPageId
UpdateSubAdmin(uid, body) ==
    LET req == [id |-> uid, body |-> body]
        updated == IF Has(body, "status")
                   THEN [users EXCEPT ![uid].status = body["status"]] ELSE users
        kept == WithoutActive(uid)
    IN
    /\ IF uid \notin DOMAIN users \/ users[uid].role # "sub_admin"
       THEN /\ last' = Response("updateSubAdmin", req, 404,
                    [success |-> FALSE, message |-> <<"Sub admin not found">>])
            /\ UNCHANGED <<users, access, nextId>>
       ELSE IF ~Has(body, "landingPageId")
       THEN /\ users' = updated
            /\ last' = Response("updateSubAdmin", req, 200,
                    [success |-> TRUE, message |-> <<"Sub admin updated successfully">>,
                     data |-> uid])
            /\ UNCHANGED <<access, nextId>>
       ELSE IF InvalidLandingPage(body["landingPageId"])
       THEN /\ users' = updated
            /\ access' = kept
            /\ last' = Response("updateSubAdmin", req, 400,
                    [success |-> FALSE, message |-> <<"Invalid landing page">>])
            /\ UNCHANGED nextId
       ELSE IF DuplicateKey(kept, uid, body["landingPageId"])
       THEN /\ users' = updated
            /\ access' = kept
            /\ last' = Response("updateSubAdmin", req, ErrorHandler.code, ErrorHandler.json)
            /\ UNCHANGED nextId
       ELSE /\ nextId.access <= MaxAccess
            /\ users' = updated
            /\ access' = Put(kept, nextId.access, NewAccess(uid, body["landingPageId"]))
            /\ nextId' = [nextId EXCEPT !.access = @ + 1]
            /\ last' = Response("updateSubAdmin", req, 200,
                    [success |-> TRUE, message |-> <<"Sub admin updated successfully">>,
                     data |-> uid])
    /\ UNCHANGED <<pages, requests, leads>>
    /\ held' = held \cup PairsOf(access')
    /\ UNCHANGED calls

\* AdminAccess.distinct('landingPage', { subAdmin })
PagesOf(sub) == {access[a].landingPage : a \in {x \in DOMAIN access : access[x].subAdmin = sub}}

\* router.delete('/sub-admins/:id') of the super-admin router
DeleteSubAdmin(uid) ==
    LET leadCount == Cardinality({l \in DOMAIN leads : leads[l].landingPage \in PagesOf(uid)}) IN
    /\ IF uid \notin DOMAIN users \/ users[uid].role # "sub_admin"
       THEN /\ last' = Response("deleteSubAdmin", [id |-> uid], 404,
                    [success |-> FALSE, message |-> <<"Sub admin not found">>])
            /\ UNCHANGED <<users, access>>
       ELSE IF leadCount > 0
       THEN /\ last' = Response("deleteSubAdmin", [id |-> uid], 400,
                    [success |-> FALSE,
                     message |-> <<"Cannot delete sub admin. There are leads associated with their landing pages.">>,
                     leadCount |-> leadCount])
            /\ UNCHANGED <<users, access>>
       ELSE /\ access' = Without(access, {a \in DOMAIN access : access[a].subAdmin = uid})
            /\ users' = Without(users, {uid})
            /\ last' = Response("deleteSubAdmin", [id |-> uid], 200,
                    [success |-> TRUE, message |-> <<"Sub admin deleted successfully">>])
    /\ UNCHANGED <<pages, requests, leads, nextId>>
    /\ held' = held \cup PairsOf(access')
    /\ UNCHANGED calls

----------------------------------------------------------------------------
(* Lead queries and updates: the authenticated part of the leads router.   *)

\* protect and checkApproval: the caller is a stored user, and a sub-admin
\* caller is approved
Admitted(actor) ==
    /\ actor \in DOMAIN users
    /\ users[actor].role = "sub_admin" => users[actor].status = "approved"

Refused(actor) ==
    IF actor \notin DOMAIN users
    THEN Fail(401, <<"Not authorized to access this route">>)
    ELSE Fail(403, <<"Account pending approval or rejected">>)

\* AdminAccess.find({ subAdmin, status: 'active' }).map(record => record.landingPage)
ActivePages(sub) ==
    {access[a].landingPage :
        a \in {x \in DOMAIN access : access[x].subAdmin = sub /\ access[x].status = "active"}}

\* The landingPage condition of the list query: the caller's scope, replaced
\* by the landingPage filter when the request carries one
PageCondition(actor, query) ==
    IF Has(query, "landingPage") THEN {query["landingPage"]}
    ELSE IF users[actor].role = "sub_admin" THEN ActivePages(actor)
    ELSE {leads[l].landingPage : l \in DOMAIN leads}

\* The leads the list query matches (createdAt is the creation order, the id)
Matching(actor, query) ==
    {l \in DOMAIN leads :
        /\ leads[l].landingPage \in PageCondition(actor, query)
        /\ Has(query, "status") => leads[l].status = query["status"]
        /\ Has(query, "startDate") => l >= query["startDate"]
        /\ Has(query, "endDate") => l <= query["endDate"]
        /\ Has(query, "search") =>
             \E k \in {"firstName", "lastName", "email"} :
                 Has(leads[l].fixed, k) /\ ContainsIgnoreCase(leads[l].fixed[k], query["search"])}

\* .sort({ createdAt: -1 }): newest first
RECURSIVE SortDesc(_)
SortDesc(S) ==
    IF S = {} THEN <<>>
    ELSE LET m == CHOOSE x \in S : \A y \in S : y <= x
         IN  <<m>> \o SortDesc(S \ {m})

\* parseInt(value, 10) || fallback
IntOr(query, k, fallback) == IF Has(query, k) /\ query[k] # 0 THEN query[k] ELSE fallback

DefaultPage == 1

DefaultLimit == 10

\* .skip(startIndex).limit(limit)
SkipLimit(seq, startIndex, limit) ==
    SubSeq(seq, startIndex + 1,
           IF startIndex + limit < Len(seq) THEN startIndex + limit ELSE Len(seq))

PaginationInclusive(page, limit, total) ==
    Merge(IF page * limit <= total
              THEN [next |-> [page |-> page + 1, limit |-> limit]] ELSE Empty,
          IF (page - 1) * limit > 0
              THEN [prev |-> [page |-> page - 1, limit |-> limit]] ELSE Empty)

\* The pagination object: next when endIndex < total, prev when startIndex > 0
Pagination(page, limit, total) ==
    Merge(IF (page - 1) * limit + limit < total
              THEN [next |-> [page |-> page + 1, limit |-> limit]] ELSE Empty,
          IF (page - 1) * limit > 0
              THEN [prev |-> [page |-> page - 1, limit |-> limit]] ELSE Empty)

\* router.get('/') of the leads router
ListLeads(actor, query) ==
    LET req == [user |-> actor, query |-> query]
        page == IntOr(query, "page", DefaultPage)
        limit == IntOr(query, "limit", DefaultLimit)
        startIndex == (page - 1) * limit
        endIndex == startIndex + limit
        total == Cardinality(Matching(actor, query))
        data == SkipLimit(SortDesc(Matching(actor, query)), startIndex, limit)
    IN
    /\ IF ~Admitted(actor)
       THEN last' = Response("listLeads", req, Refused(actor).code, Refused(actor).json)
       ELSE IF users[actor].role = "sub_admin" /\ ActivePages(actor) = {}
       THEN last' = Response("listLeads", req, 200,
                    [success |-> TRUE, count |-> 0, data |-> <<>>])
       ELSE last' = Response("listLeads", req, 200,
                    [success |-> TRUE, count |-> Len(data),
                     pagination |-> Pagination(page, limit, total),
                     total |-> total, data |-> data])
    /\ UNCHANGED <<users, pages, access, requests, leads, nextId, held, calls>>

\* The express-validator chain of the update-details route: which fields fail
UpdateLeadErrors(body) ==
    {k \in DOMAIN body \cap {"firstName", "lastName"} : Len(Trim(body[k])) < 2}
    \cup {k \in DOMAIN body \cap {"email"} : ~EmailRegexTest(body[k])}

WholeBody(body) == body

\* fieldsToUpdate: the six fixed attributes the body supplies, sanitized
\* (.trim() on the text fields, normalizeEmail() on the e-mail)
FieldsToUpdate(body) ==
    [k \in DOMAIN body \cap LeadAttrs |->
        IF k = "email" THEN ToLowerCase(body[k]) ELSE Trim(body[k])]

HasAnyRecord(actor, pid) == pid \in PagesOf(actor)

\* The access check the lead routes make for a sub-admin caller
HasAccess(actor, pid) == pid \in ActivePages(actor)

\* The check the three lead routes make before they touch the lead, for a
\* sub-admin caller: Lead.findById().populate('landingPage'), then
\* AdminAccess.findOne({ subAdmin, landingPage: lead.landingPage._id, status: 'active' })
LeadGuard(actor, lid, verb) ==
    IF users[actor].role # "sub_admin" THEN [code |-> 200]
    ELSE IF lid \notin DOMAIN leads THEN Fail(404, <<"Lead not found">>)
    ELSE IF leads[lid].landingPage \notin DOMAIN pages THEN ErrorHandler
    ELSE IF ~HasAccess(actor, leads[lid].landingPage)
        THEN Fail(403, <<"Not authorized to ", verb, " this lead">>)
    ELSE [code |-> 200]

\* router.get('/:id') of the leads router
GetLead(actor, lid) ==
    LET req == [user |-> actor, id |-> lid]
        res == IF ~Admitted(actor) THEN Refused(actor)
               ELSE IF LeadGuard(actor, lid, "access").code # 200
                   THEN LeadGuard(actor, lid, "access")
               ELSE IF lid \notin DOMAIN leads THEN Fail(404, <<"Lead not found">>)
               ELSE [code |-> 200, json |-> [success |-> TRUE, data |-> leads[lid]]]
    IN
    /\ last' = Response("getLead", req, res.code, res.json)
    /\ UNCHANGED <<users, pages, access, requests, leads, nextId, held, calls>>

\* body('status').isIn([...]) of the status route
LeadStatuses == {"new", "contacted", "qualified", "converted", "lost"}

\* router.put('/:id/status') of the leads router
UpdateLeadStatus(actor, lid, status) ==
    LET req == [user |-> actor, id |-> lid, status |-> status]
        deny == IF ~Admitted(actor) THEN Refused(actor)
                ELSE IF status \notin LeadStatuses
                    THEN [code |-> 400,
                          json |-> [success |-> FALSE, errors |-> {"status"}]]
                ELSE IF LeadGuard(actor, lid, "update").code # 200
                    THEN LeadGuard(actor, lid, "update")
                ELSE IF lid \notin DOMAIN leads THEN Fail(404, <<"Lead not found">>)
                ELSE [code |-> 200, json |-> [success |-> TRUE]]
    IN
    /\ IF deny.code # 200
       THEN /\ last' = Response("updateLeadStatus", req, deny.code, deny.json)
            /\ UNCHANGED leads
       ELSE /\ leads' = [leads EXCEPT ![lid].status = status]
            /\ last' = Response("updateLeadStatus", req, 200,
                    [success |-> TRUE, message |-> <<"Lead status updated successfully">>,
                     data |-> lid])
    /\ UNCHANGED <<users, pages, access, requests, nextId, held, calls>>

\* router.put('/:id') of the leads router
UpdateLead(actor, lid, body) ==
    LET req == [user |-> actor, id |-> lid, body |-> body]
        deny == IF ~Admitted(actor) THEN Refused(actor)
                ELSE IF UpdateLeadErrors(body) # {}
                    THEN [code |-> 400,
                          json |-> [success |-> FALSE, errors |-> UpdateLeadErrors(body)]]
                ELSE IF lid \notin DOMAIN leads
                    THEN Fail(404, <<"Lead not found">>)
                ELSE IF users[actor].role = "sub_admin"
                        /\ leads[lid].landingPage \notin DOMAIN pages
                    THEN ErrorHandler
                ELSE IF users[actor].role = "sub_admin"
                        /\ ~HasAccess(actor, leads[lid].landingPage)
                    THEN Fail(403, <<"Not authorized to update this lead">>)
                ELSE [code |-> 200, json |-> [success |-> TRUE]]
    IN
    /\ IF deny.code # 200
       THEN /\ last' = Response("updateLead", req, deny.code, deny.json)
            /\ UNCHANGED leads
       ELSE /\ leads' = [leads EXCEPT ![lid].fixed = Merge(@, FieldsToUpdate(body))]
            /\ last' = Response("updateLead", req, 200,
                    [success |-> TRUE, message |-> <<"Lead updated successfully">>,
                     data |-> lid])
    /\ UNCHANGED <<users, pages, access, requests, nextId, held, calls>>

----------------------------------------------------------------------------
(* The initial state: an empty database holding the super admin that the   *)
(* setup script creates.                                                   *)

NoRequest == [op |-> "none", req |-> <<>>, code |-> 0, json |-> <<>>]

Init ==
    /\ users = [u \in {SuperAdminId} |->
                    [email |-> "superadmin@example.com", password |-> "superadmin123",
                     role |-> "super_admin", status |-> "approved"]]
    /\ pages = <<>>
    /\ access = <<>>
    /\ requests = <<>>
    /\ leads = <<>>
    /\ held = {}
    /\ calls = <<>>
    /\ nextId = [user |-> 1, page |-> 1, access |-> 1, request |-> 1, lead |-> 1]
    /\ last = NoRequest

----------------------------------------------------------------------------
(* Request inputs.                                                         *)

UserRefs == 0..MaxUsers

PageRefs == 1..MaxPages

AccessRefs == 1..MaxAccess

LeadRefs == 1..MaxLeads

PageNames == <<"alpha", "beta", "gamma", "delta">>

PageUrls == <<"https://alpha", "https://beta", "https://gamma", "https://delta">>

UserEmails == <<"s1@x.io", "s2@x.io", "s3@x.io", "s4@x.io">>

Passwords == <<"secret1", "secret2", "secret3", "secret4">>

V_Al == <<" ", "A", "l", " ">>

V_A == <<" ", "A", " ">>

V_Bo == <<"B", "o">>

V_Mail == <<"A", "@", "b", ".", "c">>

V_NoTld == <<"a", "@", "b">>

V_Phone == <<" ", "1", "2">>

V_Co == <<"C", "o", " ">>

V_Msg == <<"h", "i">>

V_Space == <<" ">>

V_10k == <<" ", "1", "0", "k">>

V_Friend == <<"f", "r">>

V_New == <<"N", "e", "w">>

\* The objects with no entry or with one entry k, valued in vals
Options(k, vals) == {Empty} \cup {[x \in {k} |-> v] : v \in vals}

Combine(A, B) == {Merge(a, b) : a \in A, b \in B}

BasePayload == [firstName |-> V_Al, lastName |-> V_Bo, email |-> V_Mail]

\* Submissions that vary the three validated default fields
ValidationPayloads ==
    Combine(Options("firstName", {V_A, V_Al}),
            Combine({[lastName |-> V_Bo]}, Options("email", {V_NoTld, V_Mail})))
    \cup {[firstName |-> V_Al, email |-> V_Mail]}

\* Valid submissions that add optional and dynamic fields
ExtraPayloads ==
    Combine({BasePayload},
            {[phone |-> V_Phone], [company |-> V_Co], [message |-> V_Space],
             [message |-> V_Msg], [budget |-> V_Space], [budget |-> V_10k],
             [referral |-> V_Friend],
             [phone |-> V_Phone, company |-> V_Co, budget |-> V_10k, referral |-> V_Friend]})

Payloads == ValidationPayloads \cup ExtraPayloads

\* The submissions tried against the test-form route
TestPayloads ==
    {BasePayload, [firstName |-> V_Al, lastName |-> V_Bo], [lastName |-> V_Bo, email |-> V_Mail],
     Merge(BasePayload, [budget |-> V_Space]), Merge(BasePayload, [budget |-> V_10k])}

Field(name, label, required) ==
    [name |-> name, label |-> label, type |-> "text", required |-> required]

FormFieldConfigs == {<<>>, <<Field("budget", "Budget", TRUE)>>}

IncludeConfigs ==
    {IncludeDefaults,
     [k \in DefaultFieldNames |-> TRUE],
     [k \in DefaultFieldNames |-> k \in {"firstName", "lastName"}]}

LeadBodies == {[company |-> V_New], [firstName |-> V_Bo, message |-> V_Msg]}

----------------------------------------------------------------------------
(* The operations as the specifications below take them, each with its     *)
(* inputs drawn from the request sets.                                     *)

FormPageRefs == {1, 2}

ShortPayloads == {BasePayload, Merge(BasePayload, [company |-> V_Co])}

Queries ==
    {Empty, [landingPage |-> 1], [landingPage |-> 2], [status |-> "new"],
     [page |-> 2, limit |-> 1], [search |-> <<"a", "l">>]}

AddFirstPage == nextId.page = 1 /\ CreateLandingPage(PageNames[1], PageUrls[1])

AddPage == \E i \in 1..MaxPages : CreateLandingPage(PageNames[i], PageUrls[i])

RemovePage == \E pid \in PageRefs : DeleteLandingPage(pid)

SetPageStatus ==
    \E pid \in FormPageRefs, st \in {"active", "inactive"} :
        UpdateLandingPage(pid, [status |-> st])

ConfigureForm ==
    \E pid \in FormPageRefs, ff \in FormFieldConfigs, inc \in IncludeConfigs :
        UpdateFormFields(pid, ff, inc)

SubmitLead == \E pid \in FormPageRefs, formData \in Payloads : CreateLead(pid, formData)

SubmitShort == \E pid \in PageRefs, formData \in ShortPayloads : CreateLead(pid, formData)

TryForm == \E pid \in FormPageRefs, formData \in TestPayloads : TestForm(pid, formData)

EditLead == \E lid \in LeadRefs, body \in LeadBodies : UpdateLead(SuperAdminId, lid, body)

AddSubAdmin == \E i \in 1..MaxUsers : CreateSubAdmin(UserEmails[i], Passwords[i])

Approve == \E uid \in UserRefs : ApproveUser(uid)

Reject == \E uid \in UserRefs : RejectUser(uid)

Grant == \E sub \in UserRefs, pid \in PageRefs : GrantAccess(sub, pid)

Revoke == \E aid \in AccessRefs : RevokeAccess(aid)

List == \E actor \in UserRefs, query \in Queries : ListLeads(actor, query)

RequestRefs == 1..MaxRequests

\* A page reference that may also name a page never created
AnyPageRefs == 1..(MaxPages + 1)

AssignBodies == {Empty} \cup {[landingPageId |-> pid] : pid \in AnyPageRefs}

AddNextPage == CreateLandingPage(PageNames[nextId.page], PageUrls[nextId.page])

AddAssigned ==
    /\ nextId.user = 1
    /\ \E body \in AssignBodies : CreateSubAdminWithPage(UserEmails[1], Passwords[1], body)

Reassign ==
    \E uid \in UserRefs, pid \in AnyPageRefs : UpdateSubAdmin(uid, [landingPageId |-> pid])

AskAccess == \E actor \in UserRefs, pid \in PageRefs : CreateAccessRequest(actor, pid)

ApproveAsk == \E rid \in RequestRefs, pid \in AnyPageRefs : ApproveRequest(rid, pid)

RejectAsk == \E rid \in RequestRefs : RejectRequest(rid)

RemoveSubAdmin == \E uid \in UserRefs : DeleteSubAdmin(uid)

----------------------------------------------------------------------------
(* The whole system.                                                       *)

Next ==
    \/ AddPage
    \/ RemovePage
    \/ SetPageStatus
    \/ ConfigureForm
    \/ SubmitLead
    \/ TryForm
    \/ EditLead
    \/ AddSubAdmin
    \/ Approve
    \/ Reject
    \/ Grant
    \/ Revoke
    \/ List
    \/ AddAssigned
    \/ Reassign
    \/ AskAccess
    \/ ApproveAsk
    \/ RejectAsk
    \/ RemoveSubAdmin

Spec == Init /\ [][Next]_vars

----------------------------------------------------------------------------
(* The form specification: one landing page, its form configuration, and   *)
(* submissions to it (page 2 is never created).                            *)

NextForm ==
    \/ AddFirstPage
    \/ ConfigureForm
    \/ SubmitLead
    \/ TryForm

SpecForm == Init /\ [][NextForm]_vars

----------------------------------------------------------------------------
(* The lead life-cycle specification: a landing page that is deactivated   *)
(* and deleted, short submissions, and the update of a lead's details.     *)

NextLife ==
    \/ AddFirstPage
    \/ SetPageStatus
    \/ RemovePage
    \/ SubmitShort
    \/ EditLead

SpecLife == Init /\ [][NextLife]_vars

----------------------------------------------------------------------------
(* The grant specification: sub-admins that are approved and rejected, a   *)
(* landing page that is created and deleted, and the grants between them.  *)

NextGrant ==
    \/ AddSubAdmin
    \/ Approve
    \/ Reject
    \/ AddFirstPage
    \/ RemovePage
    \/ Grant
    \/ Revoke

SpecGrant == Init /\ [][NextGrant]_vars

----------------------------------------------------------------------------
(* The scope specification: sub-admins with grants on some of the landing  *)
(* pages, leads under the pages, and the lead list.                        *)

NextScope ==
    \/ AddSubAdmin
    \/ AddPage
    \/ Grant
    \/ Revoke
    \/ SubmitShort
    \/ List

SpecScope == Init /\ [][NextScope]_vars

----------------------------------------------------------------------------
(* The assignment specification: a sub-admin whose access to the landing   *)
(* pages comes from creation with a page, reassignment, direct grants and  *)
(* approved access requests.                                               *)

NextAssign ==
    \/ AddNextPage
    \/ AddAssigned
    \/ Reassign
    \/ Grant
    \/ Revoke
    \/ AskAccess
    \/ ApproveAsk

SpecAssign == Init /\ [][NextAssign]_vars

----------------------------------------------------------------------------
(* The removal specification: a sub-admin that is assigned a landing page, *)
(* moved to another existing page and deleted, the revocation of its       *)
(* access, and leads under the pages.                                      *)

MoveToPage ==
    \E uid \in UserRefs, pid \in DOMAIN pages : UpdateSubAdmin(uid, [landingPageId |-> pid])

NextRemove ==
    \/ AddNextPage
    \/ AddAssigned
    \/ MoveToPage
    \/ Revoke
    \/ SubmitShort
    \/ RemoveSubAdmin

SpecRemove == Init /\ [][NextRemove]_vars

----------------------------------------------------------------------------
(* The renaming specification: landing pages whose names and urls are      *)
(* updated, to values that other pages may have.                           *)

RenameBodies ==
    LET names == {[name |-> PageNames[i]] : i \in 1..(MaxPages + 1)}
        urls  == {[url |-> PageUrls[i]] : i \in 1..(MaxPages + 1)}
    IN names \cup urls \cup {Merge(n, u) : n \in names, u \in urls}

Rename == \E pid \in PageRefs, body \in RenameBodies : UpdateLandingPage(pid, body)

NextRename ==
    \/ AddNextPage
    \/ Rename

SpecRename == Init /\ [][NextRename]_vars

----------------------------------------------------------------------------
(* The form-fields specification: landing pages that are created and       *)
(* updated, and whose form fields are replaced by lists of up to two       *)
(* fields, the two possibly of the same name.                              *)

FieldLists ==
    LET fields == {Field("budget", "Budget", FALSE), Field("city", "City", FALSE)}
    IN {<<>>} \cup {<<f>> : f \in fields} \cup {<<f, g>> : f \in fields, g \in fields}

ConfigureFields ==
    \E pid \in PageRefs, ff \in FieldLists : UpdateFormFields(pid, ff, IncludeDefaults)

Retire ==
    \E pid \in PageRefs, st \in {"active", "inactive"} :
        UpdateLandingPage(pid, [status |-> st])

NextFields ==
    \/ AddNextPage
    \/ Retire
    \/ ConfigureFields

SpecFields == Init /\ [][NextFields]_vars

----------------------------------------------------------------------------
(* The login specification: sub-admins that register, are approved and     *)
(* rejected, and logins with the e-mails and passwords of the users and    *)
(* with one e-mail and one password that belong to nobody.                 *)

LoginEmails == {users[SuperAdminId].email} \cup {UserEmails[i] : i \in 1..(MaxUsers + 1)}

LoginPasswords == {users[SuperAdminId].password} \cup {Passwords[i] : i \in 1..(MaxUsers + 1)}

SignUp == \E email \in LoginEmails, password \in LoginPasswords : Register(email, password)

SignIn == \E email \in LoginEmails, password \in LoginPasswords : Login(email, password)

NextLogin ==
    \/ SignUp
    \/ Approve
    \/ Reject
    \/ SignIn

SpecLogin == Init /\ [][NextLogin]_vars

----------------------------------------------------------------------------
(* The account specification: sub-admin accounts that come from            *)
(* self-registration and from the two creation routes of the super admin,  *)
(* the request body of the second carrying a status or a landing page.     *)

CreateBodies ==
    LET statuses == {Empty} \cup {[status |-> st] : st \in {"pending", "approved", "rejected"}}
        assigned == {Empty} \cup {[landingPageId |-> pid] : pid \in PageRefs}
    IN {Merge(st, a) : st \in statuses, a \in assigned}

AddStaff ==
    \E i \in 1..MaxUsers, body \in CreateBodies :
        CreateSubAdminWithPage(UserEmails[i], Passwords[i], body)

NextAccount ==
    \/ AddNextPage
    \/ SignUp
    \/ AddSubAdmin
    \/ AddStaff

SpecAccount == Init /\ [][NextAccount]_vars

----------------------------------------------------------------------------
(* The activation specification: the four operations that give a          *)
(* sub-admin active access to a landing page, with a sub-admin that the    *)
(* super admin rejects.                                                    *)

NextActivate ==
    \/ AddNextPage
    \/ AddAssigned
    \/ Reject
    \/ Reassign
    \/ Grant
    \/ AskAccess
    \/ ApproveAsk

SpecActivate == Init /\ [][NextActivate]_vars

----------------------------------------------------------------------------
(* The request-race specification: access requests of sub-admins that are  *)
(* handled at the same time, each one storage operation at a time.         *)

CallRefs == 1..MaxCalls

StartAsk ==
    \E c \in CallRefs, actor \in UserRefs, pid \in PageRefs :
        CreateAccessRequestStart(c, actor, pid)

StepAsk == \E c \in CallRefs : CreateAccessRequestStep(c)

NextAskRace ==
    \/ AddNextPage
    \/ AddSubAdmin
    \/ StartAsk
    \/ StepAsk

SpecAskRace == Init /\ [][NextAskRace]_vars

----------------------------------------------------------------------------
(* The lead-access specification: a sub-admin whose access to a landing    *)
(* page is granted and revoked, leads under the page, and the three lead   *)
(* routes called by the super admin and by the sub-admin.                  *)

AmendBodies ==
    {[company |-> V_New],
     [firstName |-> <<"x">>],
     [company |-> V_Co, status |-> "lost", landingPage |-> MaxPages,
      dynamicFields |-> [budget |-> V_New]]}

ViewLead == \E actor \in UserRefs, lid \in LeadRefs : GetLead(actor, lid)

MarkLead ==
    \E actor \in UserRefs, lid \in LeadRefs, status \in {"contacted", "closed"} :
        UpdateLeadStatus(actor, lid, status)

AmendLead ==
    \E actor \in UserRefs, lid \in LeadRefs, body \in AmendBodies : UpdateLead(actor, lid, body)

NextLeads ==
    \/ AddAssigned
    \/ AddFirstPage
    \/ Grant
    \/ Revoke
    \/ SubmitShort
    \/ ViewLead
    \/ MarkLead
    \/ AmendLead

SpecLeads == Init /\ [][NextLeads]_vars

----------------------------------------------------------------------------
(* The paging specification: a landing page with up to MaxListed leads     *)
(* already under it, the status of the first lead, and the lead list read  *)
(* page by page by the super admin.                                        *)

InitPaging ==
    \E n \in 0..MaxListed :
        LET page == [name |-> PageNames[1], url |-> PageUrls[1], status |-> "active",
                     formFields |-> <<>>, includeDefaultFields |-> IncludeDefaults]
        IN
        /\ users = [u \in {SuperAdminId} |->
                        [email |-> "superadmin@example.com", password |-> "superadmin123",
                         role |-> "super_admin", status |-> "approved"]]
        /\ pages = <<page>>
        /\ access = <<>>
        /\ requests = <<>>
        /\ leads = [l \in 1..n |-> LeadData(1, page, BasePayload)]
        /\ held = {}
        /\ calls = <<>>
        /\ nextId = [user |-> 1, page |-> 2, access |-> 1, request |-> 1, lead |-> n + 1]
        /\ last = NoRequest

PagingQueries ==
    LET paged == {[page |-> p, limit |-> l] : p \in 1..(MaxListed + 1), l \in 1..MaxListed}
    IN paged \cup {Merge(q, [status |-> "new"]) : q \in paged}

ListPaged == \E query \in PagingQueries : ListLeads(SuperAdminId, query)

NextPaging ==
    \/ MarkLead
    \/ ListPaged

SpecPaging == InitPaging /\ [][NextPaging]_vars

----------------------------------------------------------------------------
(* The ingestion-race specification: lead submissions and landing-page     *)
(* deletions handled one storage operation at a time, next to the          *)
(* deactivation of a page.                                                 *)

StartIngest ==
    \E c \in CallRefs, pid \in PageRefs, formData \in ShortPayloads :
        CreateLeadStart(c, pid, formData)

StartDelete == \E c \in CallRefs, pid \in PageRefs : DeleteLandingPageStart(c, pid)

StepCall == \E c \in CallRefs : CreateLeadStep(c) \/ DeleteLandingPageStep(c)

NextIngestRace ==
    \/ AddNextPage
    \/ Retire
    \/ StartIngest
    \/ StartDelete
    \/ StepCall

SpecIngestRace == Init /\ [][NextIngestRace]_vars

----------------------------------------------------------------------------
(* Vocabulary of the properties.                                           *)

ActivePage(pid) == pid \in DOMAIN pages /\ pages[pid].status = "active"

\* Every default field enabled on the page satisfies its presence/format rule
DefaultsValid(lp, formData) ==
    /\ \A k \in {"firstName", "lastName"} :
           lp.includeDefaultFields[k] => ~NameInvalid(formData, k)
    /\ lp.includeDefaultFields["email"] => ~EmailInvalid(formData)

\* The required formFields entries whose value the payload omits or leaves blank
MissingRequired(lp, formData) ==
    {i \in DOMAIN lp.formFields :
        lp.formFields[i].required /\ Blank(formData, lp.formFields[i].name)}

\* The fixed attributes of a Lead, and the page reference of the payload
FixedNames == {"firstName", "lastName", "email", "phone", "company", "message", "landingPageId"}

DeclaredNames(lp) == {lp.formFields[i].name : i \in DOMAIN lp.formFields}

\* The AdminAccess records of a (sub-admin, landing page) pair, before and
\* after a step
PairRecords(sub, pid) ==
    {a \in DOMAIN access : access[a].subAdmin = sub /\ access[a].landingPage = pid}

PairRecordsAfter(sub, pid) ==
    {a \in DOMAIN access' : access'[a].subAdmin = sub /\ access'[a].landingPage = pid}

----------------------------------------------------------------------------
(* C1.                                                                     *)

\* C1: every lead that the lead list returns to a sub-admin, whatever the
\* query filters (an explicit landingPage filter included), belongs to a
\* landing page on which that sub-admin holds an active AdminAccess record.
C1_ListWithinScope ==
    (last.op = "listLeads" /\ last.code = 200
        /\ users[last.req.user].role = "sub_admin") =>
        \A i \in DOMAIN last.json.data :
            \E a \in DOMAIN access :
                /\ access[a].subAdmin = last.req.user
                /\ access[a].status = "active"
                /\ access[a].landingPage = leads[last.json.data[i]].landingPage

----------------------------------------------------------------------------
(* C2, C3, C5, C6, C8, C9: ingestion and the form test.                    *)

\* C2, on the landing pages that keep firstName, lastName and email enabled:
\* ingestion to an active landing page creates no Lead when a formFields
\* entry marked required is omitted from the payload or blank in it, and,
\* the enabled default fields being valid, answers '<label> is required'
\* with the label of such an entry.
C2_RequiredFieldRejected ==
    (last.op = "createLead" /\ ActivePage(last.req.landingPageId)) =>
        LET lp == pages[last.req.landingPageId]
            formData == last.req.formData
        IN  (/\ \A k \in {"firstName", "lastName", "email"} : lp.includeDefaultFields[k]
             /\ MissingRequired(lp, formData) # {}) =>
                /\ last.code # 201
                /\ DefaultsValid(lp, formData) =>
                       \E i \in MissingRequired(lp, formData) :
                           last.json.message = RequiredMsg(lp.formFields[i].label)

\* C3: ingestion to an active landing page creates a Lead whenever every
\* enabled default field is valid and every required formFields entry has a
\* non-blank value, also on pages that disable firstName, lastName or email.
C3_ValidSubmissionCreatesLead ==
    (last.op = "createLead" /\ ActivePage(last.req.landingPageId)) =>
        LET lp == pages[last.req.landingPageId]
            formData == last.req.formData
        IN  (DefaultsValid(lp, formData) /\ MissingRequired(lp, formData) = {}) =>
                /\ last.code = 201
                /\ last.json.data \in DOMAIN leads
                /\ leads[last.json.data].landingPage = last.req.landingPageId

\* C5: an accepted submission stores every payload key that is not a fixed
\* field and has a non-blank value in dynamicFields, under the same key, as
\* the trimmed value, declared in formFields or not; and the keys that
\* formFields does not declare make no difference to acceptance.
C5_DynamicFieldsStored ==
    last.op = "createLead" =>
        LET pid == last.req.landingPageId
            formData == last.req.formData
        IN  /\ last.code = 201 =>
                \A k \in DOMAIN formData \ FixedNames :
                    ~Blank(formData, k) =>
                        /\ Has(leads[last.json.data].dynamicFields, k)
                        /\ leads[last.json.data].dynamicFields[k] = Trim(formData[k])
            /\ ActivePage(pid) =>
                LET declared == Restrict(formData, FixedNames \cup DeclaredNames(pages[pid]))
                IN  Ingest(pid, declared).created => last.code = 201

\* An accepted submission with a key that formFields does not declare and
\* whose value changes when trimmed
C5_Witness ==
    /\ last.op = "createLead"
    /\ last.code = 201
    /\ \E k \in DOMAIN last.req.formData \ FixedNames :
        /\ k \notin DeclaredNames(pages[last.req.landingPageId])
        /\ ~Blank(last.req.formData, k)
        /\ Trim(last.req.formData[k]) # last.req.formData[k]
        /\ Has(leads[last.json.data].dynamicFields, k)

\* C6: the dynamicFields of a Lead created by ingestion never holds one of
\* the keys firstName, lastName, email, phone, company, message or
\* landingPageId.
C6_DynamicFieldsExcludeFixed ==
    \A l \in DOMAIN leads : DOMAIN leads[l].dynamicFields \cap FixedNames = {}

\* C8: a Lead created by ingestion has the fixed attribute phone, company or
\* message only if the landing page's includeDefaultFields enables that
\* field when the submission is made.
C8_OptionalFixedOnlyIfEnabled ==
    (last.op = "createLead" /\ last.code = 201) =>
        \A k \in {"phone", "company", "message"} :
            Has(leads[last.json.data].fixed, k) =>
                pages[last.req.landingPageId].includeDefaultFields[k]

\* C9: on an active landing page the form test reports success exactly when
\* ingestion of the same payload would create a Lead, and the form test
\* changes no record.
C9_TestFormIsDryRun ==
    [][last'.op = "testForm" =>
        /\ UNCHANGED <<users, pages, access, requests, leads, nextId, held>>
        /\ ActivePage(last'.req.id) =>
               (last'.code = 200 <=> Ingest(last'.req.id, last'.req.formData).created)]_vars

----------------------------------------------------------------------------
(* C4, C7: the lead life cycle.                                            *)

\* C4: ingestion that names no landing page, or one whose status is not
\* active, answers 'Invalid landing page' and leaves the leads unchanged;
\* every Lead that ingestion creates references a landing page that is
\* active when it is created.
C4_InvalidPageRejected ==
    [][last'.op = "createLead" =>
        LET pid == last'.req.landingPageId IN
        /\ (pid \notin DOMAIN pages \/ pages[pid].status # "active") =>
               /\ last'.code = 400
               /\ last'.json = [success |-> FALSE, message |-> <<"Invalid landing page">>]
               /\ leads' = leads
        /\ \A l \in DOMAIN leads' \ DOMAIN leads :
               /\ leads'[l].landingPage \in DOMAIN pages
               /\ pages[leads'[l].landingPage].status = "active"]_vars

\* A submission to an existing, inactive landing page was refused while a
\* lead of the page, created when it was active, is stored
C4_Witness ==
    /\ last.op = "createLead"
    /\ last.req.landingPageId \in DOMAIN pages
    /\ pages[last.req.landingPageId].status = "inactive"
    /\ last.json.message = <<"Invalid landing page">>
    /\ \E l \in DOMAIN leads : leads[l].landingPage = last.req.landingPageId

\* C7: the allFormData view of every Lead, after any ingestions and detail
\* updates, is the union of its fixed attributes and its dynamicFields, and
\* shows the fixed attribute's current value for a key that both hold.
C7_FixedTakesPrecedence ==
    \A l \in DOMAIN leads :
        LET view == AllFormData(leads[l]) IN
        /\ DOMAIN view = LeadAttrs \cup DOMAIN leads[l].dynamicFields
        /\ \A k \in DOMAIN view :
               view[k] = IF Has(leads[l].fixed, k) THEN <<leads[l].fixed[k]>>
                         ELSE IF Has(leads[l].dynamicFields, k)
                              THEN <<leads[l].dynamicFields[k]>>
                         ELSE <<>>

----------------------------------------------------------------------------
(* C10: grants.                                                            *)

\* C10 as stated: a grant for a pair whose AdminAccess record is active
\* answers 'Access already granted' and changes nothing; a grant for a pair
\* whose record is inactive or revoked makes that record active and clears
\* its revocation marks, the pair keeping one record.
C10_GrantOnExistingRecord ==
    [][last'.op = "grantAccess" =>
        LET sub == last'.req.subAdminId
            pid == last'.req.landingPageId
        IN  PairRecords(sub, pid) # {} =>
                LET a == CHOOSE a \in PairRecords(sub, pid) : TRUE IN
                IF access[a].status = "active"
                THEN /\ last'.json.message = <<"Access already granted">>
                     /\ UNCHANGED <<users, pages, access, requests, leads, nextId, held>>
                ELSE /\ access'[a].status = "active"
                     /\ ~access'[a].revoked
                     /\ PairRecordsAfter(sub, pid) = {a}]_vars

\* C10, for an approved sub-admin and an existing landing page: a grant for a
\* pair whose AdminAccess record is active answers 'Access already granted'
\* and changes nothing; a grant for a pair whose record is inactive or
\* revoked makes that record active and clears its revocation marks, the
\* pair keeping one record.
C10_GrantOnExistingRecordOfValidPair ==
    [][last'.op = "grantAccess" =>
        LET sub == last'.req.subAdminId
            pid == last'.req.landingPageId
        IN  (/\ sub \in DOMAIN users
             /\ users[sub].role = "sub_admin"
             /\ users[sub].status = "approved"
             /\ pid \in DOMAIN pages
             /\ PairRecords(sub, pid) # {}) =>
                LET a == CHOOSE a \in PairRecords(sub, pid) : TRUE IN
                IF access[a].status = "active"
                THEN /\ last'.code = 400
                     /\ last'.json.message = <<"Access already granted">>
                     /\ UNCHANGED <<users, pages, access, requests, leads, nextId, held>>
                ELSE /\ access'[a].status = "active"
                     /\ ~access'[a].revoked
                     /\ PairRecordsAfter(sub, pid) = {a}
                     /\ DOMAIN access' = DOMAIN access]_vars

\* A revoked record was reactivated by a grant: the pair has its one record,
\* active and without revocation marks
C10_Witness ==
    /\ last.op = "grantAccess"
    /\ last.code = 200
    /\ Cardinality(DOMAIN access) = 1
    /\ access[last.json.data].status = "active"
    /\ ~access[last.json.data].revoked

(***************************************************************************)
(* C11, C12, C13, C15: assignment of landing pages to sub-admins.          *)
(***************************************************************************)

\* C11: after any interleaving of grant, revoke, access-request approval,
\* creation of a sub-admin with a page and reassignment of a sub-admin, no
\* two AdminAccess records have the same (subAdmin, landingPage) pair
C11_OneRecordPerPair ==
    \A a, b \in DOMAIN access :
        (/\ access[a].subAdmin = access[b].subAdmin
         /\ access[a].landingPage = access[b].landingPage) => a = b

\* An approval or a reassignment aimed at a pair that already has a record
\* was refused by the index, and the pair still has its record
C11_Witness ==
    /\ last.op \in {"approveRequest", "updateSubAdmin"}
    /\ last.code = 500
    /\ \E a \in DOMAIN access :
          /\ last.op = "approveRequest" =>
                /\ access[a].subAdmin = requests[last.req.id].subAdmin
                /\ access[a].landingPage = last.req.landingPageId
          /\ last.op = "updateSubAdmin" =>
                /\ access[a].subAdmin = last.req.id
                /\ access[a].landingPage = last.req.body["landingPageId"]

\* C12: a successful approval leaves the request approved and the requester
\* with an active AdminAccess record for the landing page named in the
\* request, and gives access to no other page: the records it adds are for
\* that page and the records it finds keep their pair
C12_ApprovalGrantsRequestedPage ==
    [][(last'.op = "approveRequest" /\ last'.code = 200) =>
          LET r == requests[last'.req.id] IN
          /\ requests'[last'.req.id].status = "approved"
          /\ \E a \in DOMAIN access' :
                /\ access'[a].subAdmin = r.subAdmin
                /\ access'[a].landingPage = r.landingPage
                /\ access'[a].status = "active"
          /\ \A a \in DOMAIN access' :
                IF a \in DOMAIN access
                THEN /\ access'[a].subAdmin = access[a].subAdmin
                     /\ access'[a].landingPage = access[a].landingPage
                ELSE /\ access'[a].subAdmin = r.subAdmin
                     /\ access'[a].landingPage = r.landingPage]_vars

\* C13: approving a pending request for its own landing page, when the
\* pair already has a revoked record, succeeds and leaves the pair with an
\* active record; the request is not left approved without one
C13_ApprovalReactivatesRevoked ==
    [][(/\ last'.op = "approveRequest"
        /\ last'.req.id \in DOMAIN requests
        /\ requests[last'.req.id].status = "pending"
        /\ last'.req.landingPageId = requests[last'.req.id].landingPage
        /\ last'.req.landingPageId \in DOMAIN pages
        /\ \E a \in DOMAIN access :
              /\ access[a].subAdmin = requests[last'.req.id].subAdmin
              /\ access[a].landingPage = requests[last'.req.id].landingPage
              /\ access[a].status = "revoked")
       => /\ last'.code = 200
          /\ requests'[last'.req.id].status = "approved"
          /\ \E a \in DOMAIN access' :
                /\ access'[a].subAdmin = requests[last'.req.id].subAdmin
                /\ access'[a].landingPage = requests[last'.req.id].landingPage
                /\ access'[a].status = "active"]_vars

\* C15: an update of a sub-admin that answers 'Invalid landing page'
\* leaves the user records and the AdminAccess records of that sub-admin
\* as they were
C15_InvalidPageLeavesSubAdmin ==
    [][(/\ last'.op = "updateSubAdmin"
        /\ last'.code = 400
        /\ last'.json.message = <<"Invalid landing page">>)
       => /\ users' = users
          /\ \A a \in DOMAIN access :
                access[a].subAdmin = last'.req.id =>
                    a \in DOMAIN access' /\ access'[a] = access[a]]_vars

(***************************************************************************)
(* C14: revocation.                                                        *)
(***************************************************************************)

\* C14: revoking an existing AdminAccess record that is already revoked
\* fails with 'Access is already revoked' and changes nothing; revoking any
\* other existing record sets its status to revoked and sets its revocation
\* marks, the pair staying the same; no record is deleted or added and the
\* other records stay as they were
C14_RevokeKeepsRecord ==
    [][(last'.op = "revokeAccess" /\ last'.req.id \in DOMAIN access) =>
          LET aid == last'.req.id IN
          /\ DOMAIN access' = DOMAIN access
          /\ \A a \in DOMAIN access \ {aid} : access'[a] = access[a]
          /\ IF access[aid].status = "revoked"
             THEN /\ last'.code = 400
                  /\ last'.json.message = <<"Access is already revoked">>
                  /\ UNCHANGED <<users, pages, access, requests, leads, nextId>>
             ELSE /\ last'.code = 200
                  /\ access'[aid].status = "revoked"
                  /\ access'[aid].revoked
                  /\ access'[aid].subAdmin = access[aid].subAdmin
                  /\ access'[aid].landingPage = access[aid].landingPage]_vars

\* A revoked record was revoked again: the second revocation was refused
\* and the record is still there, revoked
C14_Witness ==
    /\ last.op = "revokeAccess"
    /\ last.code = 400
    /\ last.json.message = <<"Access is already revoked">>
    /\ last.req.id \in DOMAIN access
    /\ access[last.req.id].status = "revoked"
    /\ access[last.req.id].revoked

(***************************************************************************)
(* C16: deletion of a landing page.                                        *)
(***************************************************************************)

\* C16: every lead's landingPage is an existing landing page; a deletion
\* of a landing page that some lead references has failed, reporting the
\* number of those leads and leaving the page in place, and a deletion
\* that succeeded has removed a page that no lead references
C16_LeadsKeepTheirPage ==
    /\ \A l \in DOMAIN leads : leads[l].landingPage \in DOMAIN pages
    /\ last.op = "deleteLandingPage" =>
          LET referring == {l \in DOMAIN leads : leads[l].landingPage = last.req.id} IN
          /\ referring # {} =>
                /\ last.code = 400
                /\ last.json.leadCount = Cardinality(referring)
                /\ last.req.id \in DOMAIN pages
          /\ last.code = 200 => referring = {} /\ last.req.id \notin DOMAIN pages

\* The deletion of a landing page with a lead under it was refused
C16_Witness ==
    /\ last.op = "deleteLandingPage"
    /\ last.code = 400
    /\ last.json.leadCount > 0
    /\ \E l \in DOMAIN leads : leads[l].landingPage = last.req.id
    /\ last.req.id \in DOMAIN pages

(***************************************************************************)
(* C17: deletion of a sub-admin.                                           *)
(***************************************************************************)

\* C17: the deletion of a sub-admin fails, leaving the sub-admin and the
\* access records in place, whenever a lead exists under a landing page
\* for which the sub-admin has or has ever had an AdminAccess record, also
\* when that access was revoked or was removed by a reassignment
C17_DeleteBlockedByLeads ==
    [][(/\ last'.op = "deleteSubAdmin"
        /\ last'.req.id \in DOMAIN users
        /\ users[last'.req.id].role = "sub_admin"
        /\ \E l \in DOMAIN leads : <<last'.req.id, leads[l].landingPage>> \in held)
       => /\ last'.code = 400
          /\ users' = users
          /\ access' = access]_vars

(***************************************************************************)
(* C18: names and urls of landing pages.                                   *)
(***************************************************************************)

\* C18: an update of a landing page that asks for a name or a url that a
\* different landing page has, also when it asks for both and only one of
\* them is taken, fails with 'Landing page with this name or URL already
\* exists' and changes no page; names and urls of landing pages stay
\* pairwise distinct
C18_UpdateRefusesTakenNameOrUrl ==
    [][/\ \A p, q \in DOMAIN pages' :
             (pages'[p].name = pages'[q].name \/ pages'[p].url = pages'[q].url) => p = q
       /\ (/\ last'.op = "updateLandingPage"
           /\ last'.req.id \in DOMAIN pages
           /\ \E p \in DOMAIN pages \ {last'.req.id} :
                 \/ /\ Has(last'.req.body, "name")
                    /\ pages[p].name = last'.req.body["name"]
                 \/ /\ Has(last'.req.body, "url")
                    /\ pages[p].url = last'.req.body["url"])
          => /\ last'.code = 400
             /\ last'.json.message = <<"Landing page with this name or URL already exists">>
             /\ pages' = pages]_vars

(***************************************************************************)
(* C19: names of the form fields.                                          *)
(***************************************************************************)

\* C19: after any sequence of landing-page creations, updates and
\* form-fields updates, the formFields of every landing page have pairwise
\* distinct names: a list with two entries of the same name is not stored
C19_FieldNamesDistinct ==
    \A p \in DOMAIN pages :
        \A i, j \in DOMAIN pages[p].formFields :
            pages[p].formFields[i].name = pages[p].formFields[j].name => i = j

(***************************************************************************)
(* C20: login.                                                             *)
(***************************************************************************)

C21_StatusAtCreation ==
    /\ (last.op \in {"createSubAdmin", "createSubAdminWithPage"} /\ last.code = 201)
          => users[last.json.data].status = "approved"
    /\ (last.op = "register" /\ last.code = 201)
          => users[last.json.token].status = "pending"

(***************************************************************************)
(* C22: activation of access.                                              *)
(***************************************************************************)

\* C22: whenever an operation creates an active AdminAccess record or sets
\* a record to active, the record's subAdmin is at that moment an existing
\* user with role sub_admin and status approved, and its landing page
\* exists
C22_ActiveOnlyForApproved ==
    [][\A a \in DOMAIN access' :
          (/\ access'[a].status = "active"
           /\ a \in DOMAIN access => access[a].status # "active")
          => /\ access'[a].subAdmin \in DOMAIN users'
             /\ users'[access'[a].subAdmin].role = "sub_admin"
             /\ users'[access'[a].subAdmin].status = "approved"
             /\ access'[a].landingPage \in DOMAIN pages']_vars

(***************************************************************************)
(* C23: open access requests.                                              *)
(***************************************************************************)

\* C23: in every reachable state, also when create-access-request calls of
\* the same sub-admin are interleaved, no sub-admin has two AccessRequest
\* records for the same landing page that are both pending or approved
C23_OneOpenRequestPerPair ==
    \A r, q \in DOMAIN requests :
        (/\ requests[r].subAdmin = requests[q].subAdmin
         /\ requests[r].landingPage = requests[q].landingPage
         /\ requests[r].status \in {"pending", "approved"}
         /\ requests[q].status \in {"pending", "approved"}) => r = q

(***************************************************************************)
(* C24, C25: the lead list.                                                *)
(***************************************************************************)

\* C24: the lead list answered to a sub-admin that has no active
\* AdminAccess record is empty, with count 0 and total 0, whatever the
\* filters and whatever leads exist
C24_EmptyScopeListsNothing ==
    (/\ last.op = "listLeads"
     /\ last.code = 200
     /\ users[last.req.user].role = "sub_admin"
     /\ \A a \in DOMAIN access :
           access[a].subAdmin = last.req.user => access[a].status # "active")
    => /\ last.json.count = 0
       /\ last.json.data = <<>>
       /\ Has(last.json, "total")
       /\ last.json.total = 0

(***************************************************************************)
(* C26, C27: reading and changing a lead.                                  *)
(***************************************************************************)

\* A call of one of the three lead routes by a sub-admin, for an existing
\* lead under a page for which the sub-admin has no active AdminAccess
\* record (the step is from the unprimed to the primed state)
WithoutActiveAccess ==
    /\ last'.op \in {"getLead", "updateLeadStatus", "updateLead"}
    /\ last'.req.user \in DOMAIN users
    /\ users[last'.req.user].role = "sub_admin"
    /\ last'.req.id \in DOMAIN leads
    /\ \A a \in DOMAIN access :
          (/\ access[a].subAdmin = last'.req.user
           /\ access[a].landingPage = leads[last'.req.id].landingPage)
          => access[a].status # "active"

\* C26 as stated: GetById, UpdateStatus and UpdateDetails called by a
\* sub-admin without active access to the lead's landing page answer
\* Forbidden and leave the lead unchanged
C26_NoAccessIsForbidden ==
    [][WithoutActiveAccess => last'.code = 403 /\ leads' = leads]_vars

\* C26 amended: such a call leaves every lead unchanged and is answered
\* Forbidden, unless the request body fails validation, which is answered
\* first, with 400 and the list of errors
C26_NoAccessChangesNothing ==
    [][WithoutActiveAccess =>
          /\ leads' = leads
          /\ \/ last'.code = 403
             \/ /\ last'.code = 400
                /\ Has(last'.json, "errors")
                /\ last'.op \in {"updateLeadStatus", "updateLead"}]_vars

\* A sub-admin whose access to the lead's page was granted and then revoked
\* was refused the update of the lead's status
C26_Witness ==
    /\ last.op = "updateLeadStatus"
    /\ last.code = 403
    /\ last.req.id \in DOMAIN leads
    /\ leads[last.req.id].status # last.req.status
    /\ \E a \in DOMAIN access :
          /\ access[a].subAdmin = last.req.user
          /\ access[a].landingPage = leads[last.req.id].landingPage
          /\ access[a].status = "revoked"

\* C27: an update of a lead's details leaves the lead's dynamicFields,
\* status and landingPage as they were, whatever the body holds; of the six
\* fixed attributes it changes none that the body does not supply and it
\* adds no other attribute; the other leads stay as they were
C27_DetailsOnly ==
    [][(last'.op = "updateLead" /\ last'.req.id \in DOMAIN leads) =>
          LET lid == last'.req.id
              supplied == DOMAIN last'.req.body \cap
                            {"firstName", "lastName", "email", "phone", "company", "message"}
          IN
          /\ DOMAIN leads' = DOMAIN leads
          /\ \A l \in DOMAIN leads \ {lid} : leads'[l] = leads[l]
          /\ leads'[lid].dynamicFields = leads[lid].dynamicFields
          /\ leads'[lid].status = leads[lid].status
          /\ leads'[lid].landingPage = leads[lid].landingPage
          /\ DOMAIN leads'[lid].fixed \subseteq DOMAIN leads[lid].fixed \cup supplied
          /\ \A k \in DOMAIN leads[lid].fixed \ supplied :
                k \in DOMAIN leads'[lid].fixed /\ leads'[lid].fixed[k] = leads[lid].fixed[k]]_vars

\* A successful update whose body also named a status and dynamicFields:
\* the lead has the company of the body and not its status
C27_Witness ==
    /\ last.op = "updateLead"
    /\ last.code = 200
    /\ Has(last.req.body, "status")
    /\ Has(last.req.body, "dynamicFields")
    /\ leads[last.req.id].status # last.req.body["status"]
    /\ leads[last.req.id].fixed["company"] = Trim(last.req.body["company"])

\* The records got by reading the list from the given page on and
\* following the next descriptors until a response has none
RECURSIVE Follow(_, _, _)
Follow(sorted, page, limit) ==
    LET data == SkipLimit(sorted, (page - 1) * limit, limit)
        pagination == Pagination(page, limit, Len(sorted))
    IN  IF Has(pagination, "next")
        THEN data \o Follow(sorted, pagination["next"].page, pagination["next"].limit)
        ELSE data

\* C25: for N >= 1 matching leads, limit L >= 1 and page p >= 1, the list
\* response has pagination.next exactly when p*L < N, naming page p+1 with
\* the same limit, and pagination.prev exactly when p > 1; the page holds
\* the records its place in the list gives it; and reading from page 1 on
\* along the next descriptors yields every matching lead once, newest
\* first, and then stops
C25_PaginationDescriptors ==
    (/\ last.op = "listLeads"
     /\ last.code = 200
     /\ Has(last.json, "pagination")
     /\ Has(last.req.query, "page") /\ last.req.query["page"] >= 1
     /\ Has(last.req.query, "limit") /\ last.req.query["limit"] >= 1
     /\ last.json.total >= 1)
    => LET p == last.req.query["page"]
           L == last.req.query["limit"]
           N == last.json.total
           sorted == SortDesc(Matching(last.req.user, last.req.query))
           rest == IF N > (p - 1) * L THEN N - (p - 1) * L ELSE 0
       IN
       /\ N = Len(sorted)
       /\ Has(last.json.pagination, "next") <=> p * L < N
       /\ Has(last.json.pagination, "next") =>
             last.json.pagination["next"] = [page |-> p + 1, limit |-> L]
       /\ Has(last.json.pagination, "prev") <=> p > 1
       /\ last.json.count = (IF rest < L THEN rest ELSE L)
       /\ Len(last.json.data) = last.json.count
       /\ Follow(sorted, 1, L) = sorted

\* The last page of a list of several pages was read: it has a prev
\* descriptor and no next one
C25_Witness ==
    /\ last.op = "listLeads"
    /\ last.code = 200
    /\ Has(last.json, "pagination")
    /\ last.json.total >= 3
    /\ last.req.query["limit"] = 2
    /\ last.req.query["page"] = 2
    /\ ~Has(last.json.pagination, "next")
    /\ Has(last.json.pagination, "prev")
    /\ last.json.count >= 1

\* C28: every response carries success, and every failure response
\* carries either a message or an errors list and never both
C28_ResponseEnvelope ==
    last.op # "none" =>
        /\ Has(last.json, "success")
        /\ last.code >= 400 =>
              /\ last.json.success = FALSE
              /\ Has(last.json, "message") # Has(last.json, "errors")

\* C29: creating an access request is refused with 'You already have
\* access to this landing page' only while the sub-admin holds an active
\* AdminAccess record for the page; stated for the pairs that were given
\* an AdminAccess record at some time, so that it covers the sub-admin
\* whose access was revoked after the request was approved
C29_RefusedOnlyWhileActive ==
    (/\ last.op = "createAccessRequest"
     /\ last.code = 400
     /\ last.json.message = <<"You already have access to this landing page">>
     /\ <<last.req.user, last.req.landingPageId>> \in held)
    => HasAccess(last.req.user, last.req.landingPageId)

\* C30: with lead submissions and landing-page deletions interleaved at
\* the granularity of storage operations, every lead refers to a landing
\* page that exists, and a lead is created only for a landing page that
\* exists and is active when the lead is stored
C30_NoLeadForGonePage ==
    [][/\ \A l \in DOMAIN leads' : leads'[l].landingPage \in DOMAIN pages'
       /\ \A l \in DOMAIN leads' \ DOMAIN leads :
              ~InvalidLandingPage(leads'[l].landingPage)]_vars
====
